---- MODULE Spec2Model ----
(***************************************************************************)
(* Link-graph exploration, layered layout and incremental expansion of the *)
(* canvas plugin (src/main.ts).  Documents are numbered 1..NumDocs; the    *)
(* number of a document stands for its path and for its basename, and the  *)
(* iteration order of metadataCache.resolvedLinks is the numeric order.    *)
(* The active note is document 1: the exploration never orders the seed    *)
(* against another document (it is visited from the start and alone in its *)
(* layers), so another seed is a renumbering of this case.                 *)
(***************************************************************************)
EXTENDS Integers, Sequences, FiniteSets, TLC

\* ---- bounds of the model ----
NumDocs == 4
MaxLinks == 4
MaxExploreLinks == 3
MaxLinkDepth == 2
MaxColumn == 4
NumHandlers == 2

\* ---- constants of the program ----
canvasWidth == 800
canvasHeight == 600
nodeWidth == 300
nodeHeight == 200
horizontalSpacing == 450
verticalSpacing == 280
columnTolerance == 100
conflictBuffer == 20

Docs == 1..NumDocs

VARIABLES resolvedLinks, centerFile, linkDepth, phase,
          visited, nodes, connections, stack,
          layers, canvasData, idCounter, lastCall, handlers

vars == <<resolvedLinks, centerFile, linkDepth, phase,
          visited, nodes, connections, stack,
          layers, canvasData, idCounter, lastCall, handlers>>

linkIndexVars == <<resolvedLinks, centerFile, linkDepth>>
exploreVars == <<visited, nodes, connections, stack>>
canvasVars == <<layers, canvasData, idCounter, lastCall, handlers>>

\* ---- helpers ----
RECURSIVE SetToSeq(_)
SetToSeq(S) ==
  IF S = {} THEN <<>>
  ELSE LET m == CHOOSE x \in S : \A y \in S : x <= y
       IN <<m>> \o SetToSeq(S \ {m})

RECURSIVE SubsetsUpTo(_, _)
SubsetsUpTo(S, k) ==
  IF k = 0 THEN {{}}
  ELSE LET P == SubsetsUpTo(S, k - 1)
       IN P \cup {p \cup {e} : p \in P, e \in S}

Range(s) == {s[i] : i \in 1..Len(s)}

\* ---- the link index ----
getForwardLinksOf(links, file) == SetToSeq({t \in Docs : <<file, t>> \in links})
getBacklinksOf(links, file) == SetToSeq({s \in Docs : <<s, file>> \in links})
getForwardLinks(file) == getForwardLinksOf(resolvedLinks, file)
getBacklinks(file) == getBacklinksOf(resolvedLinks, file)

\* The link graphs of the model: at most MaxLinks links (self-links allowed), the
\* documents that take part numbered without gaps after the active note 1.  A
\* document no link touches is never listed by the link index, so a graph with a
\* gap in the numbering behaves as the one with the gap closed.
Linked(links) == {1} \cup {e[1] : e \in links} \cup {e[2] : e \in links}
LinkGraphs(maxLinks) ==
  {g \in SubsetsUpTo(Docs \X Docs, maxLinks) : Linked(g) = 1..Cardinality(Linked(g))}

\* ---- Map<string, Set<string>> with insertion order ----
MapHas(m, k) == \E i \in 1..Len(m) : m[i].key = k
MapGet(m, k) == LET i == CHOOSE j \in 1..Len(m) : m[j].key = k IN m[i].vals
MapSet(m, k, v) ==
  IF MapHas(m, k)
  THEN [i \in 1..Len(m) |-> IF m[i].key = k THEN [key |-> k, vals |-> v] ELSE m[i]]
  ELSE Append(m, [key |-> k, vals |-> v])
SetAdd(s, x) == IF x \in Range(s) THEN s ELSE Append(s, x)
\* mutant: the key is added to its own set
MapAddKey(m, k, x) == MapSet(m, k, SetAdd(MapGet(m, k), k))

MapAdd(m, k, x) == MapSet(m, k, SetAdd(MapGet(m, k), x))

\* ---- exploreAllConnections: call, loops, return ----
Frame(file, currentDepth) ==
  [file |-> file, currentDepth |-> currentDepth, fi |-> 1, bi |-> 1]

\* entry of exploreAllConnections(file, maxDepth, currentDepth, ...)
CallExplore(stk, conns, file, currentDepth) ==
  IF currentDepth > linkDepth
  THEN [stack |-> stk, connections |-> conns]
  ELSE [stack |-> Append(stk, Frame(file, currentDepth)),
        connections |-> IF MapHas(conns, file) THEN conns ELSE MapSet(conns, file, <<>>)]

\* mutant: the path is not recorded as visited
markVisitedNot(v, path) == v

\* visited.add(linkedFile.path)
markVisited(v, path) == v \cup {path}

\* mutant: the forward loop stays on the same element
advanceForwardStuck(f) == f

\* the for-of loops over forwardLinks and backlinks move to the next element
advanceForward(f) == [f EXCEPT !.fi = f.fi + 1]
advanceBack(f) == [f EXCEPT !.bi = f.bi + 1]

\* mutant: the backlinks loop does not wait for the forward loop
forwardLoopDoneAlways(f) == TRUE

\* the backlinks loop (line 765) starts when the forward loop (lines 749-762) has ended
forwardLoopDone(f) == f.fi > Len(getForwardLinks(f.file))

Top == stack[Len(stack)]
SetTop(f) == [stack EXCEPT ![Len(stack)] = f]

\* ---- organizeNodesIntoLayers ----
Max(S) == CHOOSE x \in S : \A y \in S : y <= x
Abs(x) == IF x < 0 THEN -x ELSE x

basename(n) == n.file

RECURSIVE SortLayer(_)
\* layer.sort((a, b) => a.file.basename.localeCompare(b.file.basename)), a stable sort
SortLayer(s) ==
  IF Len(s) <= 1 THEN s
  ELSE LET r == SortLayer(SubSeq(s, 1, Len(s) - 1))
           x == s[Len(s)]
           n == Cardinality({i \in 1..Len(r) : basename(r[i]) <= basename(x)})
       IN SubSeq(r, 1, n) \o <<x>> \o SubSeq(r, n + 1, Len(r))

maxLevel(allNodes, back) ==
  Max({allNodes[i].level : i \in {j \in 1..Len(allNodes) : allNodes[j].isBacklink = back}} \cup {0})

CenterEntry(center) == [file |-> center, level |-> 0, isBacklink |-> FALSE]

\* mutant: the side of a node is not looked at
SideLayerAnySide(center, allNodes, back, level) ==
  LET own(n) == n.file # center /\ n.level = level
  IN SortLayer((IF level = 0 THEN <<CenterEntry(center)>> ELSE <<>>)
               \o SelectSeq(allNodes, own))

\* one of backlinkLayers[level] / forwardLinkLayers[level], sorted
SideLayer(center, allNodes, back, level) ==
  LET own(n) == n.file # center /\ n.isBacklink = back /\ n.level = level
  IN SortLayer((IF level = 0 THEN <<CenterEntry(center)>> ELSE <<>>)
               \o SelectSeq(allNodes, own))

RECURSIVE BacklinkPart(_, _, _)
\* backlink layers from index i down to 0, empty ones left out
BacklinkPart(center, allNodes, i) ==
  IF i < 0 THEN <<>>
  ELSE LET l == SideLayer(center, allNodes, TRUE, i)
       IN (IF Len(l) > 0 THEN <<l>> ELSE <<>>) \o BacklinkPart(center, allNodes, i - 1)

RECURSIVE ForwardPart(_, _, _, _)
\* forward layers from index i up to last, empty ones left out
ForwardPart(center, allNodes, i, last) ==
  IF i > last THEN <<>>
  ELSE LET l == SideLayer(center, allNodes, FALSE, i)
       IN (IF Len(l) > 0 THEN <<l>> ELSE <<>>) \o ForwardPart(center, allNodes, i + 1, last)

organizeNodesIntoLayers(center, allNodes) ==
  BacklinkPart(center, allNodes, maxLevel(allNodes, TRUE))
  \o ForwardPart(center, allNodes, 0, maxLevel(allNodes, FALSE))

\* ---- createCanvasContent ----
NoCanvas == [nodes |-> <<>>, edges |-> <<>>, modified |-> -1]
NoCall == [focus |-> 0, direction |-> "none", read |-> NoCanvas]

CanvasNode(id, file, x, y) ==
  [id |-> id, file |-> file, x |-> x, y |-> y, width |-> nodeWidth, height |-> nodeHeight]
CanvasEdge(id, from, to) ==
  [id |-> id, fromNode |-> from, fromSide |-> "right", toNode |-> to, toSide |-> "left"]

CenterNodeId == [kind |-> "center-node", n |-> 0]
LayoutNodeId(k) == [kind |-> "node", n |-> k]
LayoutEdgeId(k) == [kind |-> "edge", n |-> k]

\* layers.findIndex(layer => layer.some(node => node.file.path === activeFile.path)), 0-based
centerLayerIndexOf(center, combined) ==
  LET hit == {i \in 1..Len(combined) : \E j \in 1..Len(combined[i]) : combined[i][j].file = center}
  IN IF hit = {} THEN -1 ELSE (CHOOSE i \in hit : \A h \in hit : i <= h) - 1

\* mutant: the offset is not scaled by the spacing
layerXOfUnscaled(layerIndex, centerLayerIndex) ==
  canvasWidth \div 2 + (layerIndex - centerLayerIndex)

layerXOf(layerIndex, centerLayerIndex) ==
  IF layerIndex = centerLayerIndex
  THEN canvasWidth \div 2
  ELSE canvasWidth \div 2 + (layerIndex - centerLayerIndex) * horizontalSpacing

RECURSIVE LayerSlots(_, _, _)
\* the (layerIndex, nodeInLayerIndex) pairs of the double loop, in loop order (0-based)
LayerSlots(combined, li, ni) ==
  IF li >= Len(combined) THEN <<>>
  ELSE IF ni >= Len(combined[li + 1]) THEN LayerSlots(combined, li + 1, 0)
  ELSE <<[li |-> li, ni |-> ni]>> \o LayerSlots(combined, li, ni + 1)

PlacedNodes(center, combined) ==
  LET cli == centerLayerIndexOf(center, combined)
      notCenter(s) == combined[s.li + 1][s.ni + 1].file # center
      slots == SelectSeq(LayerSlots(combined, 0, 0), notCenter)
      place(k) ==
        LET s == slots[k]
            layer == combined[s.li + 1]
            totalLayerHeight == (Len(layer) - 1) * verticalSpacing
            layerStartY == canvasHeight \div 2 - totalLayerHeight \div 2
        IN CanvasNode(LayoutNodeId(k - 1), layer[s.ni + 1].file,
                      layerXOf(s.li, cli), layerStartY + s.ni * verticalSpacing)
  IN <<CanvasNode(CenterNodeId, center, canvasWidth \div 2, canvasHeight \div 2)>>
     \o [k \in 1..Len(slots) |-> place(k)]

\* fileToNodeId.get(path): the id set last for the path, or none
HasNodeId(placed, path) == \E i \in 1..Len(placed) : placed[i].file = path
fileToNodeId(placed, path) ==
  LET hit == {i \in 1..Len(placed) : placed[i].file = path}
  IN placed[Max(hit)].id

RECURSIVE ConnectionPairs(_, _, _)
\* the (fromPath, toPath) pairs of the map in iteration order
ConnectionPairs(conns, i, j) ==
  IF i > Len(conns) THEN <<>>
  ELSE IF j > Len(conns[i].vals) THEN ConnectionPairs(conns, i + 1, 1)
  ELSE <<[from |-> conns[i].key, to |-> conns[i].vals[j]]>> \o ConnectionPairs(conns, i, j + 1)

\* mutant: an edge is emitted also when both ends are the same node
LayoutEdgesWithSelf(placed, conns) ==
  LET keep(p) == HasNodeId(placed, p.from) /\ HasNodeId(placed, p.to)
      pairs == SelectSeq(ConnectionPairs(conns, 1, 1), keep)
  IN [k \in 1..Len(pairs) |->
        CanvasEdge(LayoutEdgeId(k - 1), fileToNodeId(placed, pairs[k].from),
                   fileToNodeId(placed, pairs[k].to))]

LayoutEdges(placed, conns) ==
  LET keep(p) == /\ HasNodeId(placed, p.from)
                 /\ HasNodeId(placed, p.to)
                 /\ fileToNodeId(placed, p.from) # fileToNodeId(placed, p.to)
      pairs == SelectSeq(ConnectionPairs(conns, 1, 1), keep)
  IN [k \in 1..Len(pairs) |->
        CanvasEdge(LayoutEdgeId(k - 1), fileToNodeId(placed, pairs[k].from),
                   fileToNodeId(placed, pairs[k].to))]

createCanvasContentOf(center, organized, conns) ==
  LET placed == PlacedNodes(center, organized)
  IN [nodes |-> placed, edges |-> LayoutEdges(placed, conns), modified |-> 0]

\* the part of createCanvasContent after getAllNodesAndConnections has returned
createCanvasContent ==
  /\ phase = "explore" /\ stack = <<>>
  /\ layers' = organizeNodesIntoLayers(centerFile, nodes)
  /\ canvasData' = createCanvasContentOf(centerFile, layers', connections)
  /\ phase' = "canvas"
  /\ UNCHANGED <<linkIndexVars, exploreVars, idCounter, lastCall, handlers>>

\* ---- expandCanvas ----
RECURSIVE SortNumbers(_)
\* .sort((a, b) => a - b)
SortNumbers(s) ==
  IF Len(s) <= 1 THEN s
  ELSE LET r == SortNumbers(SubSeq(s, 1, Len(s) - 1))
           x == s[Len(s)]
           n == Cardinality({i \in 1..Len(r) : r[i] <= x})
       IN SubSeq(r, 1, n) \o <<x>> \o SubSeq(r, n + 1, Len(r))

\* mutant: only the first node of the canvas is looked at
existingPathsOfFirst(cd) == {cd.nodes[i].file : i \in {j \in 1..Len(cd.nodes) : j = 1}}

\* new Set(canvasData.nodes.map(n => n.file))
existingPathsOf(cd) == {cd.nodes[i].file : i \in 1..Len(cd.nodes)}

\* mutant: the two directions are swapped
newConnectionsOfSwapped(links, focusNote, direction) ==
  IF direction = "left" THEN getForwardLinksOf(links, focusNote)
  ELSE getBacklinksOf(links, focusNote)

newConnectionsOf(links, focusNote, direction) ==
  IF direction = "left" THEN getBacklinksOf(links, focusNote)
  ELSE getForwardLinksOf(links, focusNote)

\* mutant: links already in the canvas are not filtered out
nodesToAddUnfiltered(cd, links, focusNote, direction) ==
  newConnectionsOf(links, focusNote, direction)

nodesToAddOf(cd, links, focusNote, direction) ==
  LET fresh(linkedFile) == linkedFile \notin existingPathsOf(cd)
  IN SelectSeq(newConnectionsOf(links, focusNote, direction), fresh)

HasFocusNode(cd, focusNote) == \E i \in 1..Len(cd.nodes) : cd.nodes[i].file = focusNote
\* canvasData.nodes.find(n => n.file === focusNote.path)
focusNodeOf(cd, focusNote) ==
  cd.nodes[CHOOSE i \in 1..Len(cd.nodes) :
             /\ cd.nodes[i].file = focusNote
             /\ \A j \in 1..(i - 1) : cd.nodes[j].file # focusNote]

targetXOf(focusNode, direction) ==
  focusNode.x + (IF direction = "left" THEN -horizontalSpacing ELSE horizontalSpacing)

existingNodesAtTargetXOf(cd, targetX) ==
  LET near(n) == Abs(n.x - targetX) < nodeWidth + columnTolerance
  IN SelectSeq(cd.nodes, near)

\* the filter of lines 499-506 (and its two copies): existing nodes whose padded box meets the new one
conflictsAt(existing, y) ==
  LET hits(existingNode) ==
        LET existingTop == existingNode.y - nodeHeight \div 2 - conflictBuffer
            existingBottom == existingNode.y + nodeHeight \div 2 + conflictBuffer
            newNodeTop == y - nodeHeight \div 2
            newNodeBottom == y + nodeHeight \div 2
        IN newNodeTop < existingBottom /\ newNodeBottom > existingTop
  IN SelectSeq(existing, hits)

gapStartOf(ys, j) == ys[j] + nodeHeight \div 2 + verticalSpacing
gapEndOf(ys, j) == ys[j + 1] - nodeHeight \div 2 - verticalSpacing

\* mutant: past the bottom without the vertical spacing
freePositionOfBottom(existing) ==
  Max({existing[i].y : i \in 1..Len(existing)}) + nodeHeight

\* lines 540-559: first gap that is big enough, else past the bottom
freePositionOf(existing) ==
  LET allYPositions == SortNumbers([i \in 1..Len(existing) |-> existing[i].y])
      gaps == {j \in 1..(Len(allYPositions) - 1) :
                 gapEndOf(allYPositions, j) - gapStartOf(allYPositions, j) >= nodeHeight}
  IN IF gaps # {}
     THEN LET j == CHOOSE g \in gaps : \A h \in gaps : g <= h
          IN gapStartOf(allYPositions, j)
             + (gapEndOf(allYPositions, j) - gapStartOf(allYPositions, j)) \div 2
     ELSE Max(Range(allYPositions)) + nodeHeight + verticalSpacing

\* lines 495-562: the y chosen for the new node whose ideal slot is idealY
bestYOf(existing, idealY) ==
  LET conflicts == conflictsAt(existing, idealY)
  IN IF Len(conflicts) = 0 THEN idealY
     ELSE LET conflictY == conflicts[1].y
              above == conflictY - nodeHeight - verticalSpacing
              below == conflictY + nodeHeight + verticalSpacing
          IN IF Len(conflictsAt(existing, above)) = 0 THEN above
             ELSE IF Len(conflictsAt(existing, below)) = 0 THEN below
             ELSE freePositionOf(existing)

\* mutant: the new nodes are not centered around the focus node
idealStartYOfTop(focusNode, n) == focusNode.y

idealStartYOf(focusNode, n) == focusNode.y - ((n - 1) * verticalSpacing) \div 2

\* `node-${Date.now()}-${Math.random()}` and `edge-${Date.now()}-${Math.random()}`:
\* a value not drawn before, numbered by the count of draws
GeneratedNodeId(k) == [kind |-> "node-generated", n |-> k]
GeneratedEdgeId(k) == [kind |-> "edge-generated", n |-> k]

newNodePositionsOf(cd, toAdd, focusNode, direction) ==
  LET targetX == targetXOf(focusNode, direction)
      existing == existingNodesAtTargetXOf(cd, targetX)
      idealStartY == idealStartYOf(focusNode, Len(toAdd))
  IN [i \in 1..Len(toAdd) |->
        [x |-> targetX, y |-> bestYOf(existing, idealStartY + (i - 1) * verticalSpacing)]]

\* mutant: the list is replaced by the added elements
pushAllReplacing(list, added) == added

\* canvasData.nodes.push(newNode), canvasData.edges.push(newEdge) for every new node
pushAll(list, added) == list \o added

\* lines 567-603: the new nodes and edges pushed, meta.modified set, the file written
writeNewNodesOf(cd, toAdd, focusNote, direction, counter) ==
  LET focusNode == focusNodeOf(cd, focusNote)
      pos == newNodePositionsOf(cd, toAdd, focusNode, direction)
      newNode(i) == CanvasNode(GeneratedNodeId(counter + 2 * (i - 1)),
                               toAdd[i], pos[i].x, pos[i].y)
      newEdge(i) ==
        CanvasEdge(GeneratedEdgeId(counter + 2 * (i - 1) + 1),
                   IF direction = "left" THEN newNode(i).id ELSE focusNode.id,
                   IF direction = "left" THEN focusNode.id ELSE newNode(i).id)
  IN [nodes |-> pushAll(cd.nodes, [i \in 1..Len(toAdd) |-> newNode(i)]),
      edges |-> pushAll(cd.edges, [i \in 1..Len(toAdd) |-> newEdge(i)]),
      modified |-> cd.modified + 1]

\* mutant: the file is written even when there is nothing to add
expandCanvasOfUnguarded(cd, links, focusNote, direction, counter) ==
  LET toAdd == nodesToAddOf(cd, links, focusNote, direction)
  IN IF ~HasFocusNode(cd, focusNote) THEN cd
     ELSE writeNewNodesOf(cd, toAdd, focusNote, direction, counter)

\* the canvas file after expandCanvas: as written, or as read when it returns early
expandCanvasOf(cd, links, focusNote, direction, counter) ==
  LET toAdd == nodesToAddOf(cd, links, focusNote, direction)
  IN IF Len(toAdd) = 0 THEN cd
     ELSE IF ~HasFocusNode(cd, focusNote) THEN cd
     ELSE writeNewNodesOf(cd, toAdd, focusNote, direction, counter)

expandCanvas(focusNote, direction) ==
  /\ phase = "canvas"
  /\ canvasData' = expandCanvasOf(canvasData, resolvedLinks, focusNote, direction, idCounter)
  /\ idCounter' = idCounter + 2 * (Len(canvasData'.nodes) - Len(canvasData.nodes))
  /\ lastCall' = [focus |-> focusNote, direction |-> direction, read |-> canvasData]
  /\ UNCHANGED <<linkIndexVars, phase, exploreVars, layers, handlers>>

\* ---- the expansion commands and the click handler ----
\* One handler is one call of expandCanvasManually ("manual") or of
\* expandCanvasInDirection ("left", "right").  The command callbacks (lines 71-73,
\* 851-853, 859-861) and the timer of the click handler (lines 918-921, 926-929)
\* start the call and do not wait for it, so a second call starts while the first
\* is suspended at an await: vault.read (lines 443, 655, 973, and after each
\* expansion) or vault.modify (line 603).  From one await to the next a handler
\* runs alone.
IdleHandler ==
  [pc |-> "idle", kind |-> "none", started |-> <<>>, i |-> 0, s |-> 0, existingPaths |-> {},
   read |-> NoCanvas, pending |-> NoCanvas, wrote |-> NoCanvas, final |-> NoCanvas]

\* the directions one node is tried in: right then left (lines 674-698), or the one asked for
sidesOf(kind) == IF kind = "manual" THEN <<"right", "left">> ELSE <<kind>>

\* newForwardLinks / newBacklinks (lines 675, 688, 994, 1010)
newLinksOf(file, side, existingPaths) ==
  IF side = "right" THEN {d \in Range(getForwardLinks(file)) : d \notin existingPaths}
  ELSE {d \in Range(getBacklinks(file)) : d \notin existingPaths}

\* the loop over the nodes read at the start (lines 669-700, 984-1023) from node i,
\* direction s on, up to the first node and direction with new links
RECURSIVE nextExpansionOf(_, _, _, _, _)
nextExpansionOf(kind, started, i, s, existingPaths) ==
  IF i > Len(started) THEN [i |-> i, s |-> 1, found |-> FALSE]
  ELSE IF s > Len(sidesOf(kind)) THEN nextExpansionOf(kind, started, i + 1, 1, existingPaths)
  ELSE IF newLinksOf(started[i], sidesOf(kind)[s], existingPaths) # {}
       THEN [i |-> i, s |-> s, found |-> TRUE]
       ELSE nextExpansionOf(kind, started, i, s + 1, existingPaths)

\* the handler goes on to its next expandCanvas call, or ends with the canvas it leaves
continueFrom(h, i, s, existingPaths, cd) ==
  LET n == nextExpansionOf(h.kind, h.started, i, s, existingPaths)
  IN [h EXCEPT !.i = n.i, !.s = n.s, !.existingPaths = existingPaths,
               !.pc = IF n.found THEN "expand" ELSE "done",
               !.final = IF n.found THEN NoCanvas ELSE cd]

canvasFilesOf(cd) == [k \in 1..Len(cd.nodes) |-> cd.nodes[k].file]

\* lines 624-667, 944-982: the checks of the active view and of the original note,
\* then the first read of the canvas and the loop up to the first expansion
StartHandler(p, kind, originalNoteFound) ==
  /\ phase = "canvas"
  /\ handlers[p].pc = "idle"
  /\ handlers' =
       [handlers EXCEPT ![p] =
          IF ~originalNoteFound THEN [IdleHandler EXCEPT !.pc = "aborted", !.kind = kind]
          ELSE continueFrom([IdleHandler EXCEPT !.kind = kind,
                                                !.started = canvasFilesOf(canvasData)],
                            1, 1, Range(canvasFilesOf(canvasData)), canvasData)]
  /\ UNCHANGED <<linkIndexVars, phase, exploreVars, layers, canvasData, idCounter, lastCall>>

\* lines 437-598 of the expandCanvas call of the handler: the canvas is read and the
\* new content computed; a call that adds nothing returns without writing
HandlerExpandRead(p) ==
  LET h == handlers[p]
      focusNote == h.started[h.i]
      direction == sidesOf(h.kind)[h.s]
      content == expandCanvasOf(canvasData, resolvedLinks, focusNote, direction, idCounter)
  IN /\ h.pc = "expand"
     /\ idCounter' = idCounter + 2 * (Len(content.nodes) - Len(canvasData.nodes))
     /\ IF content = canvasData
        THEN /\ handlers' = [handlers EXCEPT ![p] = [h EXCEPT !.pc = "reread"]]
             /\ lastCall' = [focus |-> focusNote, direction |-> direction, read |-> canvasData]
        ELSE /\ handlers' = [handlers EXCEPT ![p] =
                               [h EXCEPT !.pc = "write", !.read = canvasData, !.pending = content]]
             /\ UNCHANGED lastCall
     /\ UNCHANGED <<linkIndexVars, phase, exploreVars, layers, canvasData>>

\* line 603: vault.modify replaces the file by the content computed from the read
HandlerWrite(p) ==
  LET h == handlers[p]
  IN /\ h.pc = "write"
     /\ canvasData' = h.pending
     /\ lastCall' = [focus |-> h.started[h.i], direction |-> sidesOf(h.kind)[h.s], read |-> h.read]
     /\ handlers' = [handlers EXCEPT ![p] =
                       [h EXCEPT !.pc = "reread", !.wrote = h.pending,
                                 !.read = NoCanvas, !.pending = NoCanvas]]
     /\ UNCHANGED <<linkIndexVars, phase, exploreVars, layers, idCounter>>

\* lines 680-683, 693-696, 1000-1003, 1016-1019: the canvas is read again, its files
\* are added to existingPaths, and the loop goes on
HandlerReread(p) ==
  LET h == handlers[p]
  IN /\ h.pc = "reread"
     /\ handlers' = [handlers EXCEPT ![p] =
                       continueFrom(h, h.i, h.s + 1,
                                    h.existingPaths \cup Range(canvasFilesOf(canvasData)),
                                    canvasData)]
     /\ UNCHANGED <<linkIndexVars, phase, exploreVars, layers, canvasData, idCounter, lastCall>>

InitOf(graphs) ==
  /\ resolvedLinks \in graphs
  /\ centerFile = 1
  /\ linkDepth \in 0..MaxLinkDepth
  /\ phase = "idle"
  /\ visited = {}
  /\ nodes = <<>>
  /\ connections = <<>>
  /\ stack = <<>>
  /\ layers = <<>>
  /\ canvasData = NoCanvas
  /\ idCounter = 0
  /\ lastCall = NoCall
  /\ handlers = [p \in 1..NumHandlers |-> IdleHandler]

Init == InitOf(LinkGraphs(MaxLinks))
ExploreInit == InitOf(LinkGraphs(MaxExploreLinks))

getAllNodesAndConnections ==
  /\ phase = "idle"
  /\ LET c == CallExplore(<<>>, <<[key |-> centerFile, vals |-> <<>>]>>, centerFile, 1)
     IN /\ stack' = c.stack
        /\ connections' = c.connections
  /\ nodes' = <<[file |-> centerFile, level |-> 0, isBacklink |-> FALSE]>>
  /\ visited' = markVisited({}, centerFile)
  /\ phase' = "explore"
  /\ UNCHANGED <<linkIndexVars, canvasVars>>

ExploreForwardLink ==
  /\ phase = "explore" /\ stack # <<>>
  /\ LET f == Top
         fl == getForwardLinks(f.file)
     IN /\ f.fi <= Len(fl)
        /\ LET linkedFile == fl[f.fi]
               c1 == MapAdd(connections, f.file, linkedFile)
               stk == SetTop(advanceForward(f))
           IN IF linkedFile \notin visited
              THEN LET c == CallExplore(stk, MapSet(c1, linkedFile, <<>>),
                                        linkedFile, f.currentDepth + 1)
                   IN /\ visited' = markVisited(visited, linkedFile)
                      /\ nodes' = Append(nodes, [file |-> linkedFile,
                                   level |-> f.currentDepth, isBacklink |-> FALSE])
                      /\ connections' = c.connections
                      /\ stack' = c.stack
              ELSE /\ connections' = c1
                   /\ stack' = stk
                   /\ UNCHANGED <<visited, nodes>>
  /\ UNCHANGED <<linkIndexVars, phase, canvasVars>>

ExploreBacklink ==
  /\ phase = "explore" /\ stack # <<>>
  /\ LET f == Top
         bl == getBacklinks(f.file)
     IN /\ forwardLoopDone(f)
        /\ f.bi <= Len(bl)
        /\ LET linkedFile == bl[f.bi]
               c0 == IF MapHas(connections, linkedFile) THEN connections
                     ELSE MapSet(connections, linkedFile, <<>>)
               c1 == MapAdd(c0, linkedFile, f.file)
               stk == SetTop(advanceBack(f))
           IN IF linkedFile \notin visited
              THEN LET c == CallExplore(stk, c1, linkedFile, f.currentDepth + 1)
                   IN /\ visited' = markVisited(visited, linkedFile)
                      /\ nodes' = Append(nodes, [file |-> linkedFile,
                                   level |-> f.currentDepth, isBacklink |-> TRUE])
                      /\ connections' = c.connections
                      /\ stack' = c.stack
              ELSE /\ connections' = c1
                   /\ stack' = stk
                   /\ UNCHANGED <<visited, nodes>>
  /\ UNCHANGED <<linkIndexVars, phase, canvasVars>>

ExploreReturn ==
  /\ phase = "explore" /\ stack # <<>>
  /\ forwardLoopDone(Top)
  /\ Top.bi > Len(getBacklinks(Top.file))
  /\ stack' = SubSeq(stack, 1, Len(stack) - 1)
  /\ UNCHANGED <<linkIndexVars, phase, visited, nodes, connections, canvasVars>>

ExploreNext ==
  \/ getAllNodesAndConnections
  \/ ExploreForwardLink
  \/ ExploreBacklink
  \/ ExploreReturn

\* the exploration alone, on the graphs of at most MaxExploreLinks links; every call of exploreAllConnections that has begun goes on
ExploreSpec == ExploreInit /\ [][ExploreNext]_vars /\ WF_vars(ExploreNext)

Next ==
  \/ getAllNodesAndConnections
  \/ ExploreForwardLink
  \/ ExploreBacklink
  \/ ExploreReturn
  \/ createCanvasContent
  \/ \E focusNote \in Docs, direction \in {"left", "right"} : expandCanvas(focusNote, direction)

Spec == Init /\ [][Next]_vars

\* ---- expansion of a canvas file as found in the vault ----
\* expandCanvas reads whatever the canvas file holds (line 443); the user moves and
\* adds nodes in the canvas editor.  The canvases here hold the seed node where
\* createCanvasContent puts it and a column of nodes of other files beside it.
YGrid == {-180, 80, 300, 780, 1940}
ColumnXs == {canvasWidth \div 2 - horizontalSpacing, canvasWidth \div 2 + horizontalSpacing}
RECURSIVE DistinctSeqs(_, _)
DistinctSeqs(S, k) ==
  IF k = 0 THEN {<<>>}
  ELSE LET P == DistinctSeqs(S, k - 1)
       IN P \cup UNION {{Append(q, e) : e \in S \ Range(q)} : q \in {r \in P : Len(r) = k - 1}}
SeedLinkGraphs ==
  SUBSET ({<<centerFile, d>> : d \in Docs \ {1}} \cup {<<d, centerFile>> : d \in Docs \ {1}})
ColumnCanvas(x, ys) ==
  [nodes |-> <<CanvasNode(CenterNodeId, 1, canvasWidth \div 2, canvasHeight \div 2)>>
               \o [i \in 1..Len(ys) |-> CanvasNode(LayoutNodeId(i), NumDocs + i, x, ys[i])],
   edges |-> <<>>,
   modified |-> 0]

PlaceInit ==
  /\ centerFile = 1
  /\ resolvedLinks \in SeedLinkGraphs
  /\ linkDepth = 0
  /\ phase = "canvas"
  /\ visited = {}
  /\ nodes = <<>>
  /\ connections = <<>>
  /\ stack = <<>>
  /\ layers = <<>>
  /\ canvasData \in {ColumnCanvas(x, ys) : x \in ColumnXs, ys \in DistinctSeqs(YGrid, MaxColumn)}
  /\ idCounter = 0
  /\ lastCall = NoCall
  /\ handlers = [p \in 1..NumHandlers |-> IdleHandler]

PlaceNext == \E direction \in {"left", "right"} : expandCanvas(centerFile, direction)

PlaceSpec == PlaceInit /\ [][PlaceNext]_vars

\* ---- the commands of the plugin, the expansions running as handlers ----
HandlerNext ==
  \/ getAllNodesAndConnections
  \/ ExploreForwardLink
  \/ ExploreBacklink
  \/ ExploreReturn
  \/ createCanvasContent
  \/ \E p \in 1..NumHandlers, kind \in {"manual", "left", "right"}, originalNoteFound \in BOOLEAN :
       StartHandler(p, kind, originalNoteFound)
  \/ \E p \in 1..NumHandlers : HandlerExpandRead(p)
  \/ \E p \in 1..NumHandlers : HandlerWrite(p)
  \/ \E p \in 1..NumHandlers : HandlerReread(p)

HandlerSpec == ExploreInit /\ [][HandlerNext]_vars
\* ---- properties ----
ExplorationDone == phase # "idle" /\ stack = <<>>
NodeFiles == {nodes[i].file : i \in 1..Len(nodes)}
Expanded == lastCall # NoCall
LastToAdd == nodesToAddOf(lastCall.read, resolvedLinks, lastCall.focus, lastCall.direction)

\* documents within k links of the set S, links followed in either direction
Neighbours(S) ==
  S \cup {d \in Docs : \E s \in S : <<s, d>> \in resolvedLinks \/ <<d, s>> \in resolvedLinks}
RECURSIVE Within(_, _)
Within(S, k) == IF k = 0 THEN S ELSE Within(Neighbours(S), k - 1)
LinkDistance(d) ==
  CHOOSE k \in 0..NumDocs : /\ d \in Within({centerFile}, k)
                            /\ \A j \in 0..(k - 1) : d \notin Within({centerFile}, j)

\* number of places a document takes in the layers returned by organizeNodesIntoLayers
Occurrences(file) ==
  Cardinality({p \in (1..Len(layers)) \X (1..NumDocs) :
                 p[2] <= Len(layers[p[1]]) /\ layers[p[1]][p[2]].file = file})

\* C1: whatever the link graph (cycles and self-links included) and the depth,
\* the exploration started by getAllNodesAndConnections comes to its end: no call
\* of exploreAllConnections is left on the stack.
ExplorationTerminates == <>(phase = "explore" /\ stack = <<>>)

\* an exploration of a graph with a self-link and a cycle that has ended
ExplorationTerminatesWitness ==
  /\ phase = "explore" /\ stack = <<>>
  /\ linkDepth >= 2
  /\ Len(nodes) >= 2
  /\ \E d \in NodeFiles : <<d, d>> \in resolvedLinks
  /\ \E a, b \in NodeFiles : a # b /\ <<a, b>> \in resolvedLinks /\ <<b, a>> \in resolvedLinks

\* C2: at every point of an exploration and in its result the node list holds at
\* most one entry per document.
NoDuplicateNodes ==
  \A i, j \in 1..Len(nodes) : i # j => nodes[i].file # nodes[j].file

\* in the middle of an exploration a document already in the list comes up again
NoDuplicateNodesWitness ==
  /\ phase = "explore" /\ stack # <<>>
  /\ Len(nodes) >= 3
  /\ Top.fi <= Len(getForwardLinks(Top.file))
  /\ getForwardLinks(Top.file)[Top.fi] \in visited \ {centerFile, Top.file}

\* C3: after any sequence of expansions no two nodes of one column (x less than
\* nodeWidth + 100 apart) have padded boxes that overlap vertically
\* (|y1 - y2| < nodeHeight + 20), two nodes of one expandCanvas call included.
NoColumnOverlap ==
  phase = "canvas" =>
    \A i, j \in 1..Len(canvasData.nodes) :
      (i < j /\ Abs(canvasData.nodes[i].x - canvasData.nodes[j].x) < nodeWidth + columnTolerance)
        => ~(Abs(canvasData.nodes[i].y - canvasData.nodes[j].y) < nodeHeight + conflictBuffer)

\* C4 as stated: every non-seed node is in exactly one returned layer and the seed
\* is in none of them.
LayersOmitSeed ==
  phase = "canvas" =>
    /\ \A d \in NodeFiles \ {centerFile} : Occurrences(d) = 1
    /\ Occurrences(centerFile) = 0

\* C4 as amended: every non-seed node is in exactly one returned layer; the seed is
\* in exactly two returned layers, the level-0 layer of each side, which hold
\* nothing else.
LayersHoldSeedTwice ==
  phase = "canvas" =>
    /\ \A d \in NodeFiles \ {centerFile} : Occurrences(d) = 1
    /\ Occurrences(centerFile) = 2
    /\ \A i \in 1..Len(layers) :
         (\E j \in 1..Len(layers[i]) : layers[i][j].file = centerFile) => Len(layers[i]) = 1

\* layers of an exploration that found backlinks and forward links
LayersHoldSeedTwiceWitness ==
  /\ phase = "canvas"
  /\ \E i, j \in 1..Len(nodes) : nodes[i].isBacklink /\ ~nodes[j].isBacklink /\ nodes[j].level >= 1
  /\ Len(layers) >= 4

\* C5: in a from-scratch diagram the nodes of forward level 1 are at
\* x = canvasWidth/2 + horizontalSpacing; a seed whose only link is a forward link
\* to B has B at (canvasWidth/2 + horizontalSpacing, canvasHeight/2) for depth 1.
ForwardLevelOneNextToSeed ==
  phase = "canvas" =>
    \A i \in 1..Len(nodes), k \in 1..Len(canvasData.nodes) :
      (~nodes[i].isBacklink /\ nodes[i].level = 1 /\ canvasData.nodes[k].file = nodes[i].file)
        => /\ canvasData.nodes[k].x = canvasWidth \div 2 + horizontalSpacing
           /\ (resolvedLinks = {<<centerFile, nodes[i].file>>} /\ linkDepth = 1)
                => canvasData.nodes[k].y = canvasHeight \div 2

\* C6: every document within linkDepth links of the seed, links followed in either
\* direction, has an entry in the node list the exploration returns.
AllWithinDepthExplored ==
  ExplorationDone => Within({centerFile}, linkDepth) \subseteq NodeFiles

\* C7: the level of every returned node is its link distance from the seed.
LevelIsLinkDistance ==
  ExplorationDone => \A i \in 1..Len(nodes) : nodes[i].level = LinkDistance(nodes[i].file)

\* C8: after the from-scratch build and after every expansion, the ends of every
\* edge are ids of nodes of the diagram, no two nodes have the same id and no two
\* nodes refer to the same document.
DiagramWellFormed ==
  phase = "canvas" =>
    LET ns == canvasData.nodes
        es == canvasData.edges
        ids == {ns[i].id : i \in 1..Len(ns)}
    IN /\ \A e \in 1..Len(es) : es[e].fromNode \in ids /\ es[e].toNode \in ids
       /\ \A i, j \in 1..Len(ns) : i # j => ns[i].id # ns[j].id /\ ns[i].file # ns[j].file

\* a diagram built from several explored documents and grown by an expansion
DiagramWellFormedWitness ==
  /\ phase = "canvas" /\ Expanded
  /\ Len(nodes) >= 2
  /\ Len(lastCall.read.nodes) > Len(nodes)
  /\ Len(canvasData.nodes) > Len(lastCall.read.nodes)

\* C9: a second expandCanvas with the same focus document and direction, right
\* after a first one and with the link index unchanged, leaves the diagram as
\* the first one left it.
ExpansionIdempotent ==
  Expanded =>
    expandCanvasOf(canvasData, resolvedLinks, lastCall.focus, lastCall.direction, idCounter)
      = canvasData

\* the first run added two nodes
ExpansionIdempotentWitness ==
  Expanded /\ Len(canvasData.nodes) >= Len(lastCall.read.nodes) + 2

\* C10: expandCanvas leaves nodes, edges and meta.modified as they were when the
\* focus document has no node in the diagram, and when every link of the focus
\* document in the chosen direction is already in the diagram.
NoOpWritesNothing ==
  Expanded =>
    ((~HasFocusNode(lastCall.read, lastCall.focus) \/ Len(LastToAdd) = 0)
       => canvasData = lastCall.read)

\* a call whose focus document has links that are not in the diagram, but no node
NoOpWritesNothingWitness ==
  /\ Expanded
  /\ ~HasFocusNode(lastCall.read, lastCall.focus)
  /\ Len(LastToAdd) > 0
  /\ Len(lastCall.read.nodes) >= 2
\* C11: every node (id, document, x, y, width, height) and every edge that is in
\* the diagram before an expansion is in it, unchanged, after the expansion.
ExpansionAppendsOnly ==
  Expanded =>
    /\ \A i \in 1..Len(lastCall.read.nodes) :
         \E j \in 1..Len(canvasData.nodes) : canvasData.nodes[j] = lastCall.read.nodes[i]
    /\ \A i \in 1..Len(lastCall.read.edges) :
         \E j \in 1..Len(canvasData.edges) : canvasData.edges[j] = lastCall.read.edges[i]

\* an expansion that added nodes to a diagram of several nodes and edges
ExpansionAppendsOnlyWitness ==
  /\ Expanded
  /\ Len(lastCall.read.nodes) >= 2
  /\ Len(lastCall.read.edges) >= 1
  /\ Len(canvasData.nodes) > Len(lastCall.read.nodes)
\* the pairs (source, target) recorded in connections
ConnectionSet ==
  UNION {{<<connections[i].key, t>> : t \in Range(connections[i].vals)} : i \in 1..Len(connections)}
FromScratch == phase = "canvas" /\ ~Expanded
NodeLevel(file) == nodes[CHOOSE i \in 1..Len(nodes) : nodes[i].file = file].level
FileOfId(id) ==
  canvasData.nodes[CHOOSE i \in 1..Len(canvasData.nodes) : canvasData.nodes[i].id = id].file

\* the call recorded in lastCall: the focus node as read, the documents linked to
\* the focus in the direction of the call that the canvas read does not hold, the
\* target column and the nodes the call appended
ReadFiles == {lastCall.read.nodes[i].file : i \in 1..Len(lastCall.read.nodes)}
LastFocusNode ==
  lastCall.read.nodes[CHOOSE i \in 1..Len(lastCall.read.nodes) :
                        lastCall.read.nodes[i].file = lastCall.focus]
LastNewDocs ==
  {d \in Docs \ ReadFiles :
     IF lastCall.direction = "left" THEN <<d, lastCall.focus>> \in resolvedLinks
     ELSE <<lastCall.focus, d>> \in resolvedLinks}
LastTargetX ==
  IF lastCall.direction = "left" THEN LastFocusNode.x - horizontalSpacing
  ELSE LastFocusNode.x + horizontalSpacing
LastColumn ==
  {i \in 1..Len(lastCall.read.nodes) :
     Abs(lastCall.read.nodes[i].x - LastTargetX) < nodeWidth + columnTolerance}
LastAdded == SubSeq(canvasData.nodes, Len(lastCall.read.nodes) + 1, Len(canvasData.nodes))
LastAddedEdges == SubSeq(canvasData.edges, Len(lastCall.read.edges) + 1, Len(canvasData.edges))
FreeOfColumn(y) ==
  \A i \in LastColumn : ~(Abs(y - lastCall.read.nodes[i].y) < nodeHeight + conflictBuffer)
IdealSlot(i, n) ==
  LastFocusNode.y - ((n - 1) * verticalSpacing) \div 2 + i * verticalSpacing

\* C13 as stated: the ConnectionSet returned by an exploration has no self-loop,
\* s is never in connections[s], documents that link to themselves included.
NoSelfLoopInConnections ==
  ExplorationDone => \A s \in Docs : <<s, s>> \notin ConnectionSet

\* C13 as amended: s is in connections[s] only for a document s that links to
\* itself; a document without a self-link has no self-loop in the ConnectionSet.
SelfLoopOnlyOfSelfLink ==
  ExplorationDone => \A s \in Docs : <<s, s>> \in ConnectionSet => <<s, s>> \in resolvedLinks

\* an exploration that recorded a self-loop and expanded a document without one
SelfLoopOnlyOfSelfLinkWitness ==
  /\ ExplorationDone
  /\ \E s \in Docs : <<s, s>> \in ConnectionSet
  /\ \E s, t \in Docs : s # t /\ <<s, s>> \notin resolvedLinks /\ <<s, t>> \in ConnectionSet
                        /\ <<t, s>> \in ConnectionSet

\* C14: in a from-scratch diagram two distinct nodes are in columns at least
\* horizontalSpacing apart, or in one column at least verticalSpacing apart, and
\* no non-seed node is in the column of the seed.
FromScratchNoOverlap ==
  FromScratch =>
    LET ns == canvasData.nodes
    IN /\ \A i, j \in 1..Len(ns) :
            i # j => \/ Abs(ns[i].x - ns[j].x) >= horizontalSpacing
                     \/ ns[i].x = ns[j].x /\ Abs(ns[i].y - ns[j].y) >= verticalSpacing
       /\ \A i \in 1..Len(ns) : ns[i].file # centerFile => ns[i].x # canvasWidth \div 2

\* a from-scratch diagram with two nodes in one column and nodes on both sides
FromScratchNoOverlapWitness ==
  /\ FromScratch
  /\ \E i, j \in 1..Len(canvasData.nodes) :
       i # j /\ canvasData.nodes[i].x = canvasData.nodes[j].x
  /\ \E i, j \in 1..Len(canvasData.nodes) :
       canvasData.nodes[i].x < canvasWidth \div 2 /\ canvasData.nodes[j].x > canvasWidth \div 2

\* C15: a document X that is a forward link and a backlink of D and is first
\* discovered while D's direct links are processed is emitted with
\* isBacklink = false and level = D's level + 1.
ForwardFirst ==
  [][(phase = "explore" /\ Len(nodes') = Len(nodes) + 1) =>
       LET D == Top.file
           X == nodes'[Len(nodes')]
       IN (<<D, X.file>> \in resolvedLinks /\ <<X.file, D>> \in resolvedLinks)
            => (~X.isBacklink /\ X.level = NodeLevel(D) + 1)]_vars

\* a non-seed document D and a document X linked both ways, X found one level below D
ForwardFirstWitness ==
  \E i, j \in 1..Len(nodes) :
    /\ i < j /\ nodes[i].file # centerFile
    /\ <<nodes[i].file, nodes[j].file>> \in resolvedLinks
    /\ <<nodes[j].file, nodes[i].file>> \in resolvedLinks
    /\ nodes[j].level = nodes[i].level + 1 /\ ~nodes[j].isBacklink

\* C16: with n new documents in input order, new node i (0-based) has
\* x = focusNode.x - horizontalSpacing ('left') or + horizontalSpacing ('right'),
\* and is at its ideal slot focusNode.y - (n-1)*verticalSpacing/2 + i*verticalSpacing
\* whenever that slot conflicts with no node that was in the target column.
IdealSlotKept ==
  (Expanded /\ lastCall.focus \in ReadFiles /\ LastNewDocs # {}) =>
    LET toAdd == SetToSeq(LastNewDocs)
        n == Len(toAdd)
    IN /\ Len(LastAdded) = n
       /\ \A i \in 0..(n - 1) :
            /\ LastAdded[i + 1].file = toAdd[i + 1]
            /\ LastAdded[i + 1].x = LastTargetX
            /\ FreeOfColumn(IdealSlot(i, n)) => LastAdded[i + 1].y = IdealSlot(i, n)

\* a new node at its ideal slot beside a node of the target column
IdealSlotKeptWitness ==
  /\ Expanded /\ lastCall.focus \in ReadFiles /\ LastNewDocs # {}
  /\ LastColumn # {}
  /\ \E i \in 1..Len(LastAdded) : LastAdded[i].y = IdealSlot(i - 1, Len(LastAdded))

\* the nodes and edges one call added are one per new linked document, every
\* edge between the focus node and its new node in the direction of the call
AddsOnePerNewDoc ==
  /\ Len(LastAdded) = Cardinality(LastNewDocs)
  /\ Len(LastAddedEdges) = Cardinality(LastNewDocs)
  /\ {LastAdded[i].file : i \in 1..Len(LastAdded)} = LastNewDocs
  /\ SubSeq(canvasData.nodes, 1, Len(lastCall.read.nodes)) = lastCall.read.nodes
  /\ SubSeq(canvasData.edges, 1, Len(lastCall.read.edges)) = lastCall.read.edges
  /\ \A i \in 1..Len(LastAddedEdges) :
       IF lastCall.direction = "left"
       THEN /\ LastAddedEdges[i].fromNode = LastAdded[i].id
            /\ LastAddedEdges[i].toNode = LastFocusNode.id
       ELSE /\ LastAddedEdges[i].fromNode = LastFocusNode.id
            /\ LastAddedEdges[i].toNode = LastAdded[i].id

\* C17: one expandCanvas call on a focus node of the diagram adds exactly one node
\* and one edge per linked document that is not yet in the diagram, and nothing
\* else; each added edge joins the focus node and one new node, the new node as
\* fromNode for 'left' and the focus node as fromNode for 'right'.
OneNodeAndEdgePerNewLink ==
  (Expanded /\ lastCall.focus \in ReadFiles) => AddsOnePerNewDoc

\* a call to the left that added two nodes to a diagram of several nodes
OneNodeAndEdgePerNewLinkWitness ==
  /\ Expanded /\ lastCall.focus \in ReadFiles
  /\ lastCall.direction = "left"
  /\ Cardinality(LastNewDocs) >= 2
  /\ Len(lastCall.read.nodes) >= 2

\* C20: the edges of a from-scratch diagram are one per ConnectionSet pair (s, t)
\* with s # t, from the node of s to the node of t; none is a self-edge and no
\* pair is dropped.
EdgesMatchConnections ==
  FromScratch =>
    LET es == canvasData.edges
        pairs == {p \in ConnectionSet : p[1] # p[2]}
    IN /\ {<<FileOfId(es[e].fromNode), FileOfId(es[e].toNode)>> : e \in 1..Len(es)} = pairs
       /\ Len(es) = Cardinality(pairs)
       /\ \A e \in 1..Len(es) : es[e].fromNode # es[e].toNode

\* a from-scratch diagram of a graph with a self-link and a link between two
\* documents found at the depth limit
EdgesMatchConnectionsWitness ==
  /\ FromScratch
  /\ \E s \in Docs : <<s, s>> \in ConnectionSet
  /\ Len(canvasData.edges) >= 3
  /\ \E p \in ConnectionSet : p[1] # centerFile /\ p[2] # centerFile /\ p[1] # p[2]
\* C18: whichever branch of the placement is taken (ideal slot, above the conflict,
\* below the conflict, first sufficient gap, past the bottom), the y of every node
\* expandCanvas added is not within nodeHeight + 20 of the y of any node that was
\* in the band |x - targetX| < nodeWidth + 100 when the call started.
PlacementAvoidsColumn ==
  (Expanded /\ lastCall.focus \in ReadFiles) =>
    \A i \in 1..Len(LastAdded) : FreeOfColumn(LastAdded[i].y)

\* a call that placed a node in a gap of the column: away from its ideal slot and
\* neither above nor below any node of the column by nodeHeight + verticalSpacing
PlacementAvoidsColumnWitness ==
  /\ Expanded /\ lastCall.focus \in ReadFiles
  /\ \E i \in 1..Len(LastAdded) :
       /\ LastAdded[i].y # IdealSlot(i - 1, Len(LastAdded))
       /\ \A c \in LastColumn :
            Abs(LastAdded[i].y - lastCall.read.nodes[c].y) # nodeHeight + verticalSpacing
InWindow == {p \in 1..NumHandlers : handlers[p].pc = "write"}
CanvasHolds(cd) ==
  /\ \A k \in 1..Len(cd.nodes) : \E j \in 1..Len(canvasData.nodes) : canvasData.nodes[j] = cd.nodes[k]
  /\ \A k \in 1..Len(cd.edges) : \E j \in 1..Len(canvasData.edges) : canvasData.edges[j] = cd.edges[k]
NothingLost == \A p \in 1..NumHandlers : CanvasHolds(handlers[p].wrote)
NothingDuplicated ==
  \A j, k \in 1..Len(canvasData.nodes) :
    canvasData.nodes[j].file = canvasData.nodes[k].file => j = k

\* C12: expansions started by the commands and the click handler of the plugin on
\* one canvas file never interleave: no expansion reads the canvas between the
\* read and the write of another, so nothing an expansion wrote is lost or
\* duplicated by a later write.
ExpansionsNeverInterleave ==
  /\ Cardinality(InWindow) <= 1
  /\ NothingLost
  /\ NothingDuplicated

\* C19: when expandCanvasManually completes without error, every forward link and
\* every backlink of each node that was in the diagram when it started has a node
\* in the diagram as persisted at its completion.
ManualExpansionCovers ==
  \A p \in 1..NumHandlers :
    (handlers[p].kind = "manual" /\ handlers[p].pc = "done") =>
      \A k \in 1..Len(handlers[p].started) :
        \A d \in Docs :
          (<<handlers[p].started[k], d>> \in resolvedLinks \/ <<d, handlers[p].started[k]>> \in resolvedLinks)
            => d \in Range(canvasFilesOf(handlers[p].final))
====
